---- MODULE Spec2Model ----
(***************************************************************************)
(* Student API (src/app.py): five request handlers over one document       *)
(* collection.  Strings that the program inspects character by character   *)
(* (identifiers in a path, the string form of an ObjectId) are sequences   *)
(* of one-character strings; other strings are TLA+ strings.               *)
(*                                                                         *)
(* The handlers are coroutines: the requests of two clients interleave at   *)
(* every await, so every store primitive is one step, and it may raise.    *)
(***************************************************************************)
EXTENDS Integers, Sequences, FiniteSets, TLC

VARIABLES
    store,      \* student_collection: the documents, in insertion order
    issued,     \* the ObjectIds the store has generated so far
    created,    \* history: for each inserted ObjectId, the payload it was
                \*          created from, until that record is changed or
                \*          deleted
    deleted,    \* history: the ObjectIds whose delete was answered 200
    reqs        \* the requests in flight, one per client, each at one of
                \* its handler's store round-trips

vars == <<store, issued, created, deleted, reqs>>

----------------------------------------------------------------------------
(* Bounds of the model *)

\* How many documents are inserted at most in one behaviour.
NumOids == 2

----------------------------------------------------------------------------
(* bson.ObjectId: 12 bytes, written as 24 hexadecimal digits *)

\* The vertical tab, character 11 (0x0b): the string holds that one
\* character, for which the language has no escape.
VerticalTab == ""

\* The characters bytes.fromhex skips between two bytes, the six of ASCII
\* whitespace: space, \t, \n, vertical tab, \f and \r.
Whitespace == {" ", "\t", "\n", VerticalTab, "\f", "\r"}

IsSpace(c) == c \in Whitespace

OidBytes == 12
OidHexLen == 24

HexLower == <<"0","1","2","3","4","5","6","7","8","9","a","b","c","d","e","f">>
HexUpper == <<"0","1","2","3","4","5","6","7","8","9","A","B","C","D","E","F">>

\* int(c, 16) of the characters that are hex digits.
HexValue ==
    [c \in {HexLower[i] : i \in 1..16} \cup {HexUpper[i] : i \in 1..16} |->
        (CHOOSE i \in 1..16 : HexLower[i] = c \/ HexUpper[i] = c) - 1]

IsHexDigit(c) == c \in DOMAIN HexValue

\* Whether bytes.fromhex(s) succeeds: before every byte the whitespace is
\* skipped, then two hex digits have to follow.
RECURSIVE HexParses(_)
HexParses(s) ==
    IF s = <<>> THEN TRUE
    ELSE IF IsSpace(Head(s)) THEN HexParses(Tail(s))
    ELSE /\ Len(s) >= 2
         /\ IsHexDigit(s[1])
         /\ IsHexDigit(s[2])
         /\ HexParses(SubSeq(s, 3, Len(s)))

\* bytes.fromhex(s): one byte for every pair of hex digits, the whitespace
\* between the pairs left out.
RECURSIVE BytesFromHex(_)
BytesFromHex(s) ==
    IF s = <<>> THEN <<>>
    ELSE IF IsSpace(Head(s)) THEN BytesFromHex(Tail(s))
    ELSE <<16 * HexValue[s[1]] + HexValue[s[2]]>>
             \o BytesFromHex(SubSeq(s, 3, Len(s)))

\* What ObjectId(s) accepts of a str: 24 characters that bytes.fromhex
\* parses.  The bytes are not counted: a string with whitespace between
\* its digits makes an ObjectId of fewer than 12 bytes.
ObjectIdIsValid(s) ==
    /\ Len(s) = OidHexLen
    /\ HexParses(s)

\* OidStr with the two digits of every byte in the wrong order.
OidStrSwapped(oid) ==
    [i \in 1..(2 * Len(oid)) |->
        IF i % 2 = 1 THEN HexLower[(oid[(i + 1) \div 2] % 16) + 1]
                     ELSE HexLower[(oid[i \div 2] \div 16) + 1]]

\* str(oid): binascii.hexlify of the 12 bytes, lower case.
OidStr(oid) ==
    [i \in 1..(2 * Len(oid)) |->
        IF i % 2 = 1 THEN HexLower[(oid[(i + 1) \div 2] \div 16) + 1]
                     ELSE HexLower[(oid[i \div 2] % 16) + 1]]

\* ObjectId(id) raises bson.errors.InvalidId on a string it does not accept.
InvalidId == [error |-> "InvalidId"]

ObjectId(s) ==
    IF ObjectIdIsValid(s) THEN [error |-> "none", oid |-> BytesFromHex(s)]
    ELSE InvalidId

----------------------------------------------------------------------------
(* The values requests are drawn from *)

\* The ObjectIds of the model: eleven zero bytes and a last byte.
OidOf(b) == [i \in 1..OidBytes |-> IF i = OidBytes THEN b ELSE 0]

OidPool == {OidOf(170 + k) : k \in 1..NumOids}

\* ObjectId(): the id generated for an inserted document.  Generated ids
\* are unique and increasing (timestamp, then counter).
NewObjectId(used) == OidOf(171 + Cardinality(used))

\* A record that is in the collection when the program starts: the program
\* opens whatever collection MONGODB_URL names.  Its id is none the store
\* generates later on.
Enrolled ==
    [_id |-> OidOf(169), name |-> "Asha", age |-> 30,
     address |-> [city |-> "Delhi", country |-> ""]]

\* Path parameters: the string forms of the pool's ids and of the id of
\* the record enrolled before, two strings that
\* are no ObjectId (a character that is no hex digit, a wrong length) and
\* a string of 24 characters that ObjectId accepts although it is not 24
\* hex digits (22 digits, a blank and a vertical tab: 11 bytes).
NotHex == [i \in 1..OidHexLen |-> IF i = OidHexLen THEN "g" ELSE "0"]
TooShort == <<"a", "b">>
Spaced ==
    [i \in 1..OidHexLen |->
        IF i = OidHexLen THEN VerticalTab
        ELSE IF i = OidHexLen - 1 THEN " "
        ELSE "a"]

PathIds ==
    {OidStr(o) : o \in OidPool \cup {Enrolled._id}}
        \cup {NotHex, TooShort, Spaced}

\* ObjectId(id) for each of the path parameters.
PathOid == [id \in PathIds |-> ObjectId(id)]

\* A field of a JSON body: not in the body, null, or a value of the
\* field's type.
Absent == [k |-> "absent"]
Null == [k |-> "null"]
Val(v) == [k |-> "val", v |-> v]

IsVal(f) == f.k = "val"

\* The identifier a client puts into a creation payload: the string form
\* of an ObjectId the store does not generate.
ClientId == OidStr(OidOf(170))

\* Bodies of POST: the example payload of the model, the same with a
\* client-supplied identifier (under the name id, under the alias _id),
\* and the same without the required name.
StudentBodies ==
    [id : {Absent}, _id : {Absent}, name : {Absent, Val("Jane Doe")},
     age : {Val(22)}, address : {Val([city |-> "Agra", country |-> "India"])}]
        \cup {[id |-> Val(ClientId), _id |-> Absent, name |-> Val("Jane Doe"),
               age |-> Val(22),
               address |-> Val([city |-> "Agra", country |-> "India"])],
              [id |-> Absent, _id |-> Val(ClientId), name |-> Val("Jane Doe"),
               age |-> Val(22),
               address |-> Val([city |-> "Agra", country |-> "India"])]}

\* The body of PATCH every record is updated with: name and age together,
\* the address null.
RaceUpdateBody == [name |-> Val("Rahul"), age |-> Val(23), address |-> Null]

\* The other bodies of PATCH: name and age together with the values of the
\* creation payload, every field null, the age alone, and the empty body.
RaceUpdateBodies ==
    {[name |-> Val("Jane Doe"), age |-> Val(22), address |-> Null],
     [name |-> Null, age |-> Null, address |-> Null],
     [name |-> Absent, age |-> Val(23), address |-> Absent],
     [name |-> Absent, age |-> Absent, address |-> Absent]}

\* Path parameters that denote the pool's ids.
RacePathIds == {OidStr(o) : o \in OidPool}

\* Query parameters of the list: a country and a minimum age, and the
\* empty country alone.
RaceListParams == {[country |-> Val("India"), age |-> Val(23)],
                   [country |-> Val(""), age |-> Absent]}

----------------------------------------------------------------------------
(* The document store: insert_one, find_one, update_one, delete_one, find *)

NoDoc == [none |-> TRUE]

Positions(s, oid) == {i \in 1..Len(s) : s[i]._id = oid}

First(S) == CHOOSE i \in S : \A j \in S : i <= j

\* find_one({"_id": oid}): the document with that _id, or None.
FindOne(s, oid) ==
    IF Positions(s, oid) = {} THEN NoDoc ELSE s[First(Positions(s, oid))]

\* InsertOne putting the document in the place of the collection.
InsertOneReplacing(s, doc, oid) ==
    <<[_id |-> oid, name |-> doc.name, age |-> doc.age,
       address |-> doc.address]>>

\* InsertOneResult.inserted_id: the _id of the document, which is the
\* generated one unless the document carries an _id of its own.
InsertedId(doc, oid) == IF "_id" \in DOMAIN doc THEN doc._id ELSE oid

\* insert_one(doc): the document is stored under its inserted_id.
InsertOne(s, doc, oid) ==
    Append(s, [_id |-> InsertedId(doc, oid), name |-> doc.name,
               age |-> doc.age, address |-> doc.address])

\* ApplySet writing one of the named fields and not the others.
ApplySetOneField(doc, upd) ==
    [f \in DOMAIN doc |->
        IF DOMAIN upd # {} /\ f = (CHOOSE g \in DOMAIN upd : TRUE)
        THEN upd[f] ELSE doc[f]]

\* {"$set": upd} applied to one document: the named fields are overwritten.
ApplySet(doc, upd) ==
    [f \in DOMAIN doc |-> IF f \in DOMAIN upd THEN upd[f] ELSE doc[f]]

\* UpdateOne with upsert=True: a document is inserted when none matches.
UpdateOneUpsert(s, oid, upd) ==
    IF Positions(s, oid) = {}
    THEN [store |-> Append(s, ApplySet([_id |-> oid, name |-> "", age |-> 0,
                                        address |-> [city |-> "", country |-> ""]],
                                       upd)),
          matched_count |-> 0, modified_count |-> 0]
    ELSE LET i == First(Positions(s, oid))
             d == ApplySet(s[i], upd)
         IN  [store |-> [s EXCEPT ![i] = d],
              matched_count |-> 1,
              modified_count |-> IF d = s[i] THEN 0 ELSE 1]

\* update_one({"_id": oid}, {"$set": upd}): the collection afterwards and
\* the counts of the UpdateResult.
UpdateOne(s, oid, upd) ==
    IF Positions(s, oid) = {}
    THEN [store |-> s, matched_count |-> 0, modified_count |-> 0]
    ELSE LET i == First(Positions(s, oid))
             d == ApplySet(s[i], upd)
         IN  [store |-> [s EXCEPT ![i] = d],
              matched_count |-> 1,
              modified_count |-> IF d = s[i] THEN 0 ELSE 1]

\* DeleteOne reporting the deletion and keeping the document.
DeleteOneKeeping(s, oid) ==
    IF Positions(s, oid) = {}
    THEN [store |-> s, deleted_count |-> 0]
    ELSE [store |-> s, deleted_count |-> 1]

\* delete_one({"_id": oid}): the collection afterwards and deleted_count.
DeleteOne(s, oid) ==
    IF Positions(s, oid) = {}
    THEN [store |-> s, deleted_count |-> 0]
    ELSE LET i == First(Positions(s, oid))
         IN  [store |-> SubSeq(s, 1, i - 1) \o SubSeq(s, i + 1, Len(s)),
              deleted_count |-> 1]

\* A find() filter is a function from the keys it names to conditions.
MatchesQuery(doc, query) ==
    /\ "address.country" \in DOMAIN query =>
           doc.address.country = query["address.country"]
    /\ "age" \in DOMAIN query => doc.age >= query["age"].gte

RECURSIVE SelectDocs(_, _)
SelectDocs(s, query) ==
    IF s = <<>> THEN <<>>
    ELSE IF MatchesQuery(Head(s), query)
         THEN <<Head(s)>> \o SelectDocs(Tail(s), query)
         ELSE SelectDocs(Tail(s), query)

\* The projection {"name": 1, "age": 1, "_id": 0}.
ProjectNameAge(doc) == [name |-> doc.name, age |-> doc.age]

\* The projection {"_id": 0}.
ProjectNoId(doc) ==
    [name |-> doc.name, age |-> doc.age, address |-> doc.address]

\* to_list(length): at most length documents of the cursor.
ToList(s, length) == IF Len(s) <= length THEN s ELSE SubSeq(s, 1, length)

ListCap == 1000

Find(s, query) ==
    LET hits == SelectDocs(s, query)
    IN  ToList([i \in 1..Len(hits) |-> ProjectNameAge(hits[i])], ListCap)

----------------------------------------------------------------------------
(* Request validation and the mapping between bodies and documents *)

StudentFields == {"name", "age", "address"}

\* StudentModel: name, age and address are required (Field(...)); id is
\* Optional with default None.
StudentMissing(student) == {f \in StudentFields : ~IsVal(student[f])}

\* UpdateMissing of a model whose fields default to None: nothing is
\* required.
UpdateMissingNone(student) == {}

\* UpdateStudentModel: every field is Optional[...] with no default, so it
\* may be null but has to be in the body.
UpdateMissing(student) == {f \in StudentFields : student[f] = Absent}

\* StudentModel.id: populated from the alias _id when the body has that
\* key (be it null) and otherwise, with populate_by_name, from the name
\* id; None when the body has neither.
StudentId(student) ==
    IF student._id # Absent THEN student._id
    ELSE IF student.id # Absent THEN student.id
    ELSE Null

\* DumpStudent without the exclude: the id the client supplied goes into
\* the document as its _id.
DumpStudentKeepingId(student) ==
    IF IsVal(StudentId(student))
    THEN [_id |-> BytesFromHex(StudentId(student).v), name |-> student.name.v,
          age |-> student.age.v, address |-> student.address.v]
    ELSE [name |-> student.name.v, age |-> student.age.v,
          address |-> student.address.v]

\* student.model_dump(by_alias=True, exclude=["id"])
DumpStudent(student) ==
    [name |-> student.name.v, age |-> student.age.v,
     address |-> student.address.v]

\* UpdateData without the "if v is not None": a null field is in the
\* update set, with the empty value of its type standing for None.
UpdateDataWithNulls(student) ==
    [f \in {g \in StudentFields : student[g] # Absent} |->
        IF IsVal(student[f]) THEN student[f].v
        ELSE IF f = "name" THEN ""
        ELSE IF f = "age" THEN 0
        ELSE [city |-> "", country |-> ""]]

\* {k: v for k, v in student.model_dump(exclude_unset=True).items()
\*  if v is not None}
UpdateData(student) ==
    [f \in {g \in StudentFields : IsVal(student[g])} |-> student[f].v]

\* The query list_students builds from its two parameters.
ListQuery(country, age) ==
    [key \in (IF IsVal(country) /\ country.v # "" THEN {"address.country"} ELSE {})
          \cup (IF age # Absent THEN {"age"} ELSE {}) |->
        IF key = "age" THEN [gte |-> age.v] ELSE country.v]

----------------------------------------------------------------------------
(* Responses *)

NoId == <<>>
EmptyBody == [empty |-> TRUE]

Response(status, body) == [status |-> status, body |-> body]

\* RequestValidationError: 422 with the fields found missing.
Unprocessable(missing) == Response(422, [detail |-> missing])

\* An exception no handler catches: 500 Internal Server Error.
ServerError == Response(500, [text |-> "Internal Server Error"])

\* HTTPException(status_code=404, detail=f"Student {id} not found")
NotFound(id) == Response(404, [detail |-> <<"Student ", id, " not found">>])

----------------------------------------------------------------------------
(* A request in flight: where its handler stands and what it has done *)

\* The clients that have a request in flight at the same time: the
\* handlers of two requests interleave at their store round-trips.
Clients == {"c1", "c2"}

\* pc is the store round-trip the handler waits for ("insert", "find",
\* "list", "fetch", "write", "probe", "delete"), "done" once the response
\* is out.  calls counts the store primitives the handler has invoked.
\* failed, atWrite and atProbe are history: whether a store primitive
\* raised, and whether the target of an update was in the store when its
\* write and its probe ran.
Idle ==
    [op |-> "none", id |-> NoId, body |-> EmptyBody, pc |-> "idle",
     status |-> 0, out |-> EmptyBody, calls |-> 0, inserted |-> NoId,
     failed |-> FALSE, atWrite |-> "unrun", atProbe |-> "unrun"]


----------------------------------------------------------------------------
(* The handlers, from one store round-trip to the next *)

\* The response goes out: the handler returns or raises.
Respond(r, resp) ==
    [r EXCEPT !.pc = "done", !.status = resp.status, !.out = resp.body]

\* The handler awaits the store primitive step.
Await(r, step) == [r EXCEPT !.pc = step]

\* The store primitive awaited has been invoked.
Called(r) == [r EXCEPT !.calls = @ + 1]

\* A request from its arrival to the first await: the validation of the
\* body, the update set, ObjectId(id).
Accepted(op, id, body) ==
    LET r == [Idle EXCEPT !.op = op, !.id = id, !.body = body] IN
    CASE op = "create" ->
            IF StudentMissing(body) # {}
            THEN Respond(r, Unprocessable(StudentMissing(body)))
            ELSE Await(r, "insert")
      [] op = "list" -> Await(r, "list")
      [] op = "fetch" ->
            IF PathOid[id] = InvalidId THEN Respond(r, ServerError)
            ELSE Await(r, "fetch")
      [] op = "update" ->
            IF UpdateMissing(body) # {}
            THEN Respond(r, Unprocessable(UpdateMissing(body)))
            ELSE IF PathOid[id] = InvalidId THEN Respond(r, ServerError)
            ELSE IF DOMAIN UpdateData(body) # {} THEN Await(r, "write")
            ELSE Await(r, "probe")
      [] op = "delete" ->
            IF PathOid[id] = InvalidId THEN Respond(r, ServerError)
            ELSE Await(r, "delete")

\* create_student after insert_one: find_one by the inserted id is next.
AfterInsert(r, inserted_id) ==
    [Await(Called(r), "find") EXCEPT !.inserted = inserted_id]

\* create_student after find_one: created_student["_id"] raises TypeError
\* when created_student is None.
AfterFind(r, created_student) ==
    IF created_student = NoDoc THEN Respond(Called(r), ServerError)
    ELSE Respond(Called(r), Response(201, [id |-> OidStr(created_student._id)]))

\* list_students after find(...).to_list(1000)
AfterList(r, students) ==
    Respond(Called(r), Response(200, [data |-> students]))

\* fetch_student after find_one
AfterFetch(r, student) ==
    IF student # NoDoc THEN Respond(Called(r), Response(200, ProjectNoId(student)))
    ELSE Respond(Called(r), NotFound(r.id))

\* AfterWrite trusting modified_count alone: no probe, 404 at once.
AfterWriteNoProbe(r, update_result) ==
    IF update_result.modified_count = 1
    THEN Respond(Called(r), Response(204, EmptyBody))
    ELSE Respond(Called(r), NotFound(r.id))

\* update_student after update_one: done when modified_count is 1, the
\* find_one probe otherwise.
AfterWrite(r, update_result) ==
    IF update_result.modified_count = 1
    THEN Respond(Called(r), Response(204, EmptyBody))
    ELSE Await(Called(r), "probe")

\* update_student after the find_one probe
AfterProbe(r, existing_student) ==
    IF existing_student # NoDoc THEN Respond(Called(r), Response(204, EmptyBody))
    ELSE Respond(Called(r), NotFound(r.id))

\* delete_student after delete_one
AfterDelete(r, delete_result) ==
    IF delete_result.deleted_count = 1
    THEN Respond(Called(r), Response(200, EmptyBody))
    ELSE Respond(Called(r), NotFound(r.id))

\* OnStoreError with an except clause that reports the record missing.
OnStoreErrorNotFound(r) ==
    [Respond(Called(r), NotFound(r.id)) EXCEPT !.failed = TRUE]

\* The awaited store primitive raises (the store is unreachable, the
\* operation fails): no handler has an except clause, the exception ends
\* the request in 500 Internal Server Error.
OnStoreError(r) ==
    [Respond(Called(r), ServerError) EXCEPT !.failed = TRUE]

----------------------------------------------------------------------------
(* The requests the clients send *)

\* The requests that write: the create of the example payload, and for
\* every record the update with RaceUpdateBody and the delete.
WritingRequests ==
    {[op |-> "create", id |-> NoId,
      body |-> [id |-> Absent, _id |-> Absent, name |-> Val("Jane Doe"),
                age |-> Val(22),
                address |-> Val([city |-> "Agra", country |-> "India"])]]}
        \cup {[op |-> "update", id |-> i, body |-> RaceUpdateBody] :
                 i \in RacePathIds}
        \cup {[op |-> "delete", id |-> i, body |-> EmptyBody] : i \in RacePathIds}

\* Every kind of request: the creates with every body, the lists, the
\* fetches with every path parameter; the record created first is updated
\* with the other bodies as well; strings that do not denote a record go
\* with a delete and with an update whose body is accepted.
AllRequests ==
    WritingRequests
        \cup {[op |-> "create", id |-> NoId, body |-> b] : b \in StudentBodies}
        \cup {[op |-> "list", id |-> NoId, body |-> b] : b \in RaceListParams}
        \cup {[op |-> "fetch", id |-> i, body |-> EmptyBody] : i \in PathIds}
        \cup {[op |-> "update", id |-> OidStr(OidOf(171)), body |-> b] :
                 b \in RaceUpdateBodies}
        \cup {[op |-> "update", id |-> i,
               body |-> [name |-> Null, age |-> Null, address |-> Null]] :
                 i \in {NotHex}}
        \cup {[op |-> "delete", id |-> i, body |-> EmptyBody] :
                 i \in RacePathIds \cup {NotHex, Spaced}}

\* The first client sends every kind of request; the second sends, at any
\* point of the first's handlers, the requests that change the collection.
Requests(c) == IF c = "c1" THEN AllRequests ELSE WritingRequests

----------------------------------------------------------------------------
(* The requests: every store primitive of a handler is one step *)

StoreSteps == {"insert", "find", "list", "fetch", "write", "probe", "delete"}

\* Whether a document with the id is in the store.
Seen(oid) == IF Positions(store, oid) # {} THEN "present" ELSE "absent"

\* created once the record oid has been changed or deleted.
Forget(oid) == [o \in DOMAIN created \ {oid} |-> created[o]]

\* created once a record has been inserted under oid from the document doc.
Remember(oid, doc) ==
    [o \in DOMAIN created \cup {oid} |->
        IF o = oid THEN [name |-> doc.name, age |-> doc.age,
                         address |-> doc.address]
        ELSE created[o]]

\* The collection is empty or holds the record enrolled before; no request
\* has arrived.
Init ==
    /\ store \in {<<>>, <<Enrolled>>}
    /\ issued = {}
    /\ created = <<>>
    /\ deleted = {}
    /\ reqs = [c \in Clients |-> Idle]

Receive(c) ==
    /\ reqs[c].pc \in {"idle", "done"}
    /\ \E q \in Requests(c) :
        /\ (q.op = "create" /\ StudentMissing(q.body) = {}) =>
               Cardinality(issued)
                 + Cardinality({d \in Clients : reqs[d].pc = "insert"}) < NumOids
        /\ reqs' = [reqs EXCEPT ![c] = Accepted(q.op, q.id, q.body)]
    /\ UNCHANGED <<store, issued, created, deleted>>

CreateInsert(c) ==
    /\ reqs[c].pc = "insert"
    /\ \E doc \in {DumpStudent(reqs[c].body)} :
        /\ store' = InsertOne(store, doc, NewObjectId(issued))
        /\ issued' = issued \cup {NewObjectId(issued)}
        /\ created' = Remember(InsertedId(doc, NewObjectId(issued)), doc)
        /\ reqs' = [reqs EXCEPT
                      ![c] = AfterInsert(@, InsertedId(doc, NewObjectId(issued)))]
    /\ UNCHANGED deleted

CreateFind(c) ==
    /\ reqs[c].pc = "find"
    /\ reqs' = [reqs EXCEPT ![c] = AfterFind(@, FindOne(store, @.inserted))]
    /\ UNCHANGED <<store, issued, created, deleted>>

ListFind(c) ==
    /\ reqs[c].pc = "list"
    /\ reqs' = [reqs EXCEPT
                  ![c] = AfterList(@, Find(store, ListQuery(@.body.country,
                                                            @.body.age)))]
    /\ UNCHANGED <<store, issued, created, deleted>>

FetchFind(c) ==
    /\ reqs[c].pc = "fetch"
    /\ reqs' = [reqs EXCEPT
                  ![c] = AfterFetch(@, FindOne(store, PathOid[@.id].oid))]
    /\ UNCHANGED <<store, issued, created, deleted>>

UpdateWrite(c) ==
    /\ reqs[c].pc = "write"
    /\ \E update_result \in {UpdateOne(store, PathOid[reqs[c].id].oid,
                                       UpdateData(reqs[c].body))} :
        /\ store' = update_result.store
        /\ created' = IF update_result.modified_count = 1
                      THEN Forget(PathOid[reqs[c].id].oid) ELSE created
        /\ reqs' = [reqs EXCEPT
                      ![c] = [AfterWrite(@, update_result) EXCEPT
                                 !.atWrite = Seen(PathOid[reqs[c].id].oid)]]
    /\ UNCHANGED <<issued, deleted>>

UpdateProbe(c) ==
    /\ reqs[c].pc = "probe"
    /\ reqs' = [reqs EXCEPT
                  ![c] = [AfterProbe(@, FindOne(store, PathOid[@.id].oid)) EXCEPT
                             !.atProbe = Seen(PathOid[reqs[c].id].oid)]]
    /\ UNCHANGED <<store, issued, created, deleted>>

DeleteDelete(c) ==
    /\ reqs[c].pc = "delete"
    /\ \E delete_result \in {DeleteOne(store, PathOid[reqs[c].id].oid)} :
        /\ store' = delete_result.store
        /\ created' = IF delete_result.deleted_count = 1
                      THEN Forget(PathOid[reqs[c].id].oid) ELSE created
        /\ deleted' = IF delete_result.deleted_count = 1
                      THEN deleted \cup {PathOid[reqs[c].id].oid} ELSE deleted
        /\ reqs' = [reqs EXCEPT ![c] = AfterDelete(@, delete_result)]
    /\ UNCHANGED issued

\* The store primitive a handler awaits raises and has no effect.
StoreFails(c) ==
    /\ reqs[c].pc \in StoreSteps
    /\ reqs' = [reqs EXCEPT ![c] = OnStoreError(@)]
    /\ UNCHANGED <<store, issued, created, deleted>>

Next ==
    \E c \in Clients :
        \/ Receive(c)
        \/ CreateInsert(c)
        \/ CreateFind(c)
        \/ ListFind(c)
        \/ FetchFind(c)
        \/ UpdateWrite(c)
        \/ UpdateProbe(c)
        \/ DeleteDelete(c)
        \/ StoreFails(c)

Spec == Init /\ [][Next]_vars

----------------------------------------------------------------------------
(* Vocabulary of the properties *)

Ids(s) == {s[i]._id : i \in 1..Len(s)}

\* The ids of the documents, in the order of the collection.
IdsInOrder(s) == [i \in 1..Len(s) |-> s[i]._id]

\* The canonical string form of a store identifier: 24 lower-case hex
\* digits.
WellFormed(id) ==
    /\ Len(id) = OidHexLen
    /\ \A i \in 1..Len(id) : id[i] \in {HexLower[k] : k \in 1..16}

\* The store identifier a well-formed path parameter denotes.
Target(id) == PathOid[id].oid

\* The detail of the 404 of the handlers names the requested id.
NamesId(out, id) == out = [detail |-> <<"Student ", id, " not found">>]

\* The step is one of client c's request and ends it: the response of
\* reqs'[c] goes out.
Finishes(c) == reqs'[c] # reqs[c] /\ reqs'[c].pc = "done"

\* The fields a body carries, and the fields it leaves out.
Carried(body) == {f \in StudentFields : IsVal(body[f])}
Omitted(body) == {f \in StudentFields : body[f] = Absent}

\* The request fails the validation of its body: a creation payload
\* without one of name, age and address, an update payload that leaves a
\* field out.
FailsValidation(r) ==
    \/ r.op = "create" /\ Carried(r.body) # StudentFields
    \/ r.op = "update" /\ Omitted(r.body) # {}

\* What the filters of a list request select, as the specification of the
\* endpoint states it: country is an exact match, age is a minimum.
Selected(doc, filters) ==
    /\ IsVal(filters.country) => doc.address.country = filters.country.v
    /\ IsVal(filters.age) => doc.age >= filters.age.v

\* The identifiers the client put into a creation payload, under the name
\* id or under the alias _id.
Supplied(body) == {body[f].v : f \in {g \in {"id", "_id"} : IsVal(body[g])}}

\* An update handled with no other request between its awaits and no
\* store primitive raising: the collection afterwards and the status.
UpdateAlone(s, id, body) ==
    LET r == Accepted("update", id, body) IN
    IF r.pc = "done" THEN [store |-> s, status |-> r.status]
    ELSE LET wrote == IF r.pc = "write"
                      THEN UpdateOne(s, PathOid[id].oid, UpdateData(body))
                      ELSE [store |-> s, matched_count |-> 0,
                            modified_count |-> 0]
             written == IF r.pc = "write" THEN AfterWrite(r, wrote) ELSE r
             probed == IF written.pc = "probe"
                       THEN AfterProbe(written,
                                       FindOne(wrote.store, PathOid[id].oid))
                       ELSE written
         IN  [store |-> wrote.store, status |-> probed.status]

----------------------------------------------------------------------------
(* C1 *)

\* C1: a fetch by the string form of the id a create inserted its record
\* under, the record having been neither changed nor deleted since and no
\* store primitive raising, is answered 200 with exactly the name, the age
\* and the address (city, country) of the creation payload.
C1_RoundTrip ==
    [][\A c \in Clients, o \in DOMAIN created :
         (/\ Finishes(c)
          /\ reqs'[c].op = "fetch"
          /\ ~reqs'[c].failed
          /\ reqs'[c].id = OidStr(o)) =>
            /\ reqs'[c].status = 200
            /\ reqs'[c].out =
                 [name |-> created[o].name, age |-> created[o].age,
                  address |-> [city |-> created[o].address.city,
                               country |-> created[o].address.country]]]_vars

\* A fetch by the id the other client's create returned has been answered
\* with the payload's name, another record created besides.
C1_Witness ==
    \E c, d \in Clients :
        /\ reqs[c].op = "fetch" /\ reqs[c].status = 200
        /\ reqs[d].op = "create" /\ reqs[d].status = 201
        /\ reqs[d].out.id = reqs[c].id
        /\ reqs[d].inserted \in DOMAIN created
        /\ reqs[c].out.name = reqs[d].body.name.v
        /\ Cardinality(issued) > 1

----------------------------------------------------------------------------
(* C9 *)

\* C9: the insert step of a create appends exactly one document, under an
\* id that was not in the store, with the name, age and address of the
\* payload, and leaves every other document as it was; no other step of a
\* create changes the store; and a create answered 201 returns the string
\* form of the id its document was inserted under.
C9_CreateAddsOne ==
    [][\A c \in Clients :
         (reqs'[c] # reqs[c] /\ reqs'[c].op = "create") =>
            /\ (reqs[c].pc = "insert" /\ reqs'[c].pc = "find") =>
                 /\ Len(store') = Len(store) + 1
                 /\ SubSeq(store', 1, Len(store)) = store
                 /\ reqs'[c].inserted \notin Ids(store)
                 /\ store'[Len(store')] =
                      [_id |-> reqs'[c].inserted,
                       name |-> reqs[c].body.name.v,
                       age |-> reqs[c].body.age.v,
                       address |-> reqs[c].body.address.v]
            /\ ~(reqs[c].pc = "insert" /\ reqs'[c].pc = "find") =>
                 store' = store
            /\ reqs'[c].status = 201 =>
                 /\ ObjectIdIsValid(reqs'[c].out.id)
                 /\ BytesFromHex(reqs'[c].out.id) = reqs'[c].inserted
                 /\ reqs'[c].inserted \in Ids(store)]_vars

\* A create has been answered 201 with the id of its document, other
\* documents in the store and the other client's request in flight.
C9_Witness ==
    \E c, d \in Clients :
        /\ reqs[c].op = "create" /\ reqs[c].status = 201
        /\ Len(store) > 1
        /\ \E i \in 1..Len(store) : OidStr(store[i]._id) = reqs[c].out.id
        /\ reqs[d].pc \in StoreSteps

----------------------------------------------------------------------------
(* C8 *)

\* C8: once a delete of a record has been answered 200, every fetch and
\* every delete of that id that ends later, none of its store primitives
\* raising, is answered 404 naming the id, whatever was handled in
\* between.
C8_DeletedStaysGone ==
    [][\A c \in Clients :
         (/\ Finishes(c)
          /\ reqs'[c].op \in {"fetch", "delete"}
          /\ ~reqs'[c].failed
          /\ WellFormed(reqs'[c].id)
          /\ Target(reqs'[c].id) \in deleted) =>
            /\ reqs'[c].status = 404
            /\ NamesId(reqs'[c].out, reqs'[c].id)]_vars

\* A delete of an id deleted before has been answered 404 after another
\* record was created.
C8_Witness ==
    \E c \in Clients :
        /\ reqs[c].op = "delete" /\ reqs[c].status = 404
        /\ WellFormed(reqs[c].id) /\ Target(reqs[c].id) \in deleted
        /\ Ids(store) \cap OidPool # {}

----------------------------------------------------------------------------
(* C10 *)

\* C10: no step of an update changes, in any document, a field that is
\* null in the update's body: a null is never written.
C10_NullIsNotWritten ==
    [][\A c \in Clients :
         (reqs'[c] # reqs[c] /\ reqs'[c].op = "update") =>
            \A f \in StudentFields :
                reqs'[c].body[f] = Null =>
                    /\ Len(store') = Len(store)
                    /\ \A i \in 1..Len(store) : store'[i][f] = store[i][f]]_vars

\* An update with a null field and fields that carry values has written
\* the record and been answered 204.
C10_Witness ==
    \E c \in Clients :
        /\ reqs[c].op = "update" /\ reqs[c].status = 204
        /\ \E f \in StudentFields : reqs[c].body[f] = Null
        /\ \E f \in StudentFields : IsVal(reqs[c].body[f])
        /\ reqs[c].atWrite = "present" /\ reqs[c].atProbe = "unrun"
        /\ Target(reqs[c].id) \in Ids(store)

----------------------------------------------------------------------------
(* C2 *)

\* C2: an update of a record of the store whose body carries only some of
\* the fields is answered 204; the carried fields then hold the new values
\* and the omitted fields and the id hold the values they had.
C2_PartialUpdate ==
    [][\A c \in Clients :
         (/\ Finishes(c)
          /\ reqs'[c].op = "update"
          /\ ~reqs'[c].failed
          /\ WellFormed(reqs'[c].id)
          /\ Target(reqs'[c].id) \in Ids(store)
          /\ Carried(reqs'[c].body) # {}
          /\ Omitted(reqs'[c].body) # {}
          /\ Carried(reqs'[c].body) \cup Omitted(reqs'[c].body)
                 = StudentFields) =>
            LET before == FindOne(store, Target(reqs'[c].id))
                after == FindOne(store', Target(reqs'[c].id))
            IN  /\ reqs'[c].status = 204
                /\ after # NoDoc
                /\ after._id = before._id
                /\ \A f \in Carried(reqs'[c].body) :
                     after[f] = reqs'[c].body[f].v
                /\ \A f \in Omitted(reqs'[c].body) : after[f] = before[f]]_vars

----------------------------------------------------------------------------
(* C3 *)

\* C3: a fetch, an update whose body is accepted, or a delete, whose path
\* id is not the canonical string form of a store identifier, is answered
\* with a client error, 404 or 400, and leaves the store as it was.
C3_MalformedIdIsClientError ==
    [][\A c \in Clients :
         (/\ Finishes(c)
          /\ reqs'[c].op \in {"fetch", "update", "delete"}
          /\ ~FailsValidation(reqs'[c])
          /\ ~reqs'[c].failed
          /\ ~WellFormed(reqs'[c].id)) =>
            /\ reqs'[c].status \in {400, 404}
            /\ store' = store]_vars

----------------------------------------------------------------------------
(* C4 *)

\* C4: an update of a record of the store whose update set is empty (an
\* empty body, or every field null) or whose values equal the stored ones
\* is answered 204 and leaves the store as it was, and with an empty
\* update set no write is issued.
C4_NoOpUpdateSucceeds ==
    [][\A c \in Clients :
         (/\ Finishes(c)
          /\ reqs'[c].op = "update"
          /\ ~reqs'[c].failed
          /\ WellFormed(reqs'[c].id)
          /\ Target(reqs'[c].id) \in Ids(store)
          /\ LET before == FindOne(store, Target(reqs'[c].id))
             IN  \A f \in Carried(reqs'[c].body) :
                     before[f] = reqs'[c].body[f].v) =>
            /\ reqs'[c].status = 204
            /\ store' = store
            /\ Carried(reqs'[c].body) = {} => reqs'[c].atWrite = "unrun"]_vars

----------------------------------------------------------------------------
(* C5 *)

\* C5: for every record of the store and every update body, the update
\* handled twice in a row is answered 204 both times, and the second
\* leaves the store as the first left it.
C5_UpdateTwice ==
    \A id \in RacePathIds, student \in {RaceUpdateBody} \cup RaceUpdateBodies :
        Target(id) \in Ids(store) =>
            LET first == UpdateAlone(store, id, student)
                second == UpdateAlone(first.store, id, student)
            IN  /\ first.status = 204
                /\ second.status = 204
                /\ second.store = first.store

----------------------------------------------------------------------------
(* C6 *)

\* C6: an update addressed to a well-formed id with no document in the
\* store, no other request being in flight, is answered 404 naming the
\* id, whatever its update set, and leaves the store as it was.
C6_UpdateOfMissingIs404 ==
    [][\A c \in Clients :
         (/\ Finishes(c)
          /\ reqs'[c].op = "update"
          /\ ~reqs'[c].failed
          /\ WellFormed(reqs'[c].id)
          /\ Target(reqs'[c].id) \notin Ids(store)
          /\ \A d \in Clients \ {c} : reqs[d].pc \notin StoreSteps) =>
            /\ reqs'[c].status = 404
            /\ NamesId(reqs'[c].out, reqs'[c].id)
            /\ store' = store]_vars

----------------------------------------------------------------------------
(* C7 *)

\* C7: the data of a list response are exactly the records the filters
\* select in the store the list read (as many items with a given name
\* and age as there are selected records with them).
C7_ListFilter ==
    [][\A c \in Clients :
         (Finishes(c) /\ reqs'[c].op = "list" /\ ~reqs'[c].failed) =>
            LET data == reqs'[c].out.data
                items == {data[k] : k \in 1..Len(data)}
                           \cup {[name |-> store[i].name, age |-> store[i].age] :
                                    i \in 1..Len(store)}
            IN  /\ reqs'[c].status = 200
                /\ \A item \in items :
                     Cardinality({k \in 1..Len(data) : data[k] = item})
                       = Cardinality({i \in 1..Len(store) :
                                        /\ Selected(store[i], reqs'[c].body)
                                        /\ store[i].name = item.name
                                        /\ store[i].age = item.age})]_vars

----------------------------------------------------------------------------
(* C12 *)

\* C12: the insert step of a create stores the document under an id the
\* store generates in that step, which is no identifier the client
\* supplied; and the id of a 201 response is the string form of that id
\* and no identifier the client supplied.
C12_ClientIdDropped ==
    [][\A c \in Clients :
         (reqs'[c] # reqs[c] /\ reqs'[c].op = "create") =>
            /\ (reqs[c].pc = "insert" /\ reqs'[c].pc = "find") =>
                 /\ reqs'[c].inserted \in OidPool
                 /\ reqs'[c].inserted \notin issued
                 /\ store'[Len(store')]._id = reqs'[c].inserted
                 /\ \A id \in Supplied(reqs[c].body) :
                      reqs'[c].inserted # BytesFromHex(id)
            /\ reqs'[c].status = 201 =>
                 /\ reqs'[c].out.id = OidStr(reqs'[c].inserted)
                 /\ reqs'[c].out.id \notin Supplied(reqs'[c].body)]_vars

\* A create whose payload carries an identifier has been answered 201
\* with the id of its document, which is another.
C12_Witness ==
    \E c \in Clients :
        /\ reqs[c].op = "create" /\ reqs[c].status = 201
        /\ Supplied(reqs[c].body) # {}
        /\ reqs[c].out.id \notin Supplied(reqs[c].body)
        /\ \E i \in 1..Len(store) : OidStr(store[i]._id) = reqs[c].out.id

----------------------------------------------------------------------------
(* C17 *)

\* C17: a list response holds at most ListCap items; every item is the
\* name and the age, and nothing else, of a stored record the filters
\* select; with more than ListCap records selected it holds ListCap.
C17_ListIsCappedAndMatches ==
    [][\A c \in Clients :
         (Finishes(c) /\ reqs'[c].op = "list" /\ ~reqs'[c].failed) =>
            LET data == reqs'[c].out.data
                hits == {i \in 1..Len(store) :
                            Selected(store[i], reqs'[c].body)}
            IN  /\ Len(data) <= ListCap
                /\ \A k \in 1..Len(data) :
                     /\ DOMAIN data[k] = {"name", "age"}
                     /\ \E i \in hits :
                          data[k] = [name |-> store[i].name,
                                     age |-> store[i].age]
                /\ Cardinality(hits) > ListCap => Len(data) = ListCap]_vars

----------------------------------------------------------------------------
(* C11 *)

\* C11: a step changes the ids of the store in one of two ways only: the
\* insert step of a create appends one document under an id that was not
\* in the store; the delete step of a delete removes the one document of
\* the requested id.  No step of a list, a fetch or an update adds or
\* removes a document or changes the id of one.
C11_IdsChangeByInsertOrDelete ==
    [][\/ IdsInOrder(store') = IdsInOrder(store)
       \/ \E c \in Clients :
            /\ reqs[c].op = "create" /\ reqs[c].pc = "insert"
            /\ reqs'[c].pc = "find"
            /\ Len(store') = Len(store) + 1
            /\ SubSeq(IdsInOrder(store'), 1, Len(store)) = IdsInOrder(store)
            /\ store'[Len(store')]._id \notin Ids(store)
       \/ \E c \in Clients :
            /\ reqs[c].op = "delete" /\ reqs[c].pc = "delete"
            /\ reqs'[c].pc = "done"
            /\ Len(store') = Len(store) - 1
            /\ Ids(store') = Ids(store) \ {Target(reqs[c].id)}]_vars

\* A delete has removed one of two documents while an update of the other
\* is between its write and its probe.
C11_Witness ==
    \E c, d \in Clients :
        /\ reqs[c].op = "delete" /\ reqs[c].status = 200
        /\ reqs[d].op = "update" /\ reqs[d].pc = "probe"
        /\ reqs[d].id # reqs[c].id
        /\ Ids(store) = {Target(reqs[d].id)}
        /\ Cardinality(issued) = 2

----------------------------------------------------------------------------
(* C13 *)

\* C13: the step that receives a create or an update whose body fails
\* validation answers it 422; no store primitive has been invoked for it
\* and the store is as it was.
C13_InvalidBodyNeverReachesStore ==
    [][\A c \in Clients :
         (reqs'[c] # reqs[c] /\ reqs[c].pc \in {"idle", "done"}
              /\ FailsValidation(reqs'[c])) =>
            /\ reqs'[c].pc = "done"
            /\ reqs'[c].status = 422
            /\ reqs'[c].calls = 0
            /\ store' = store]_vars

\* An update that leaves fields out, addressed to a record of the store,
\* has been answered 422 while the other client's create is in flight.
C13_Witness ==
    \E c, d \in Clients :
        /\ reqs[c].op = "update" /\ FailsValidation(reqs[c])
        /\ reqs[c].status = 422
        /\ Target(reqs[c].id) \in Ids(store)
        /\ reqs[d].op = "create" /\ reqs[d].pc = "find"

----------------------------------------------------------------------------
(* C14 *)

\* C14: a create whose insert succeeded, and none of whose store
\* primitives failed, is answered 201 with the string form of the inserted
\* id, whatever the other client does in between.
C14_CreateAnswersCreated ==
    \A c \in Clients :
        (/\ reqs[c].op = "create" /\ reqs[c].pc = "done"
         /\ reqs[c].inserted # NoId /\ ~reqs[c].failed) =>
            /\ reqs[c].status = 201
            /\ reqs[c].out = [id |-> OidStr(reqs[c].inserted)]

----------------------------------------------------------------------------
(* C15 *)

\* C15: an update is answered 204 only if the record was in the store
\* when its write ran and the write ended the handler, or when its probe
\* ran; it is answered 404 only if its probe ran and the record was not in
\* the store then; and an update whose write found the record and whose
\* probe did not is answered 404.
C15_UpdateAnswersItsOwnSteps ==
    \A c \in Clients :
        (reqs[c].op = "update" /\ reqs[c].pc = "done") =>
            /\ reqs[c].status = 204 =>
                 \/ reqs[c].atWrite = "present" /\ reqs[c].atProbe = "unrun"
                 \/ reqs[c].atProbe = "present"
            /\ reqs[c].status = 404 => reqs[c].atProbe = "absent"
            /\ (reqs[c].atWrite = "present" /\ reqs[c].atProbe = "absent") =>
                 reqs[c].status = 404

\* An update whose write matched the record and modified nothing has been
\* answered 404: the other client's delete removed the record before the
\* probe.
C15_Witness ==
    \E c, d \in Clients :
        /\ reqs[c].op = "update" /\ reqs[c].status = 404
        /\ reqs[c].atWrite = "present" /\ reqs[c].atProbe = "absent"
        /\ reqs[d].op = "delete" /\ reqs[d].status = 200
        /\ reqs[d].id = reqs[c].id

----------------------------------------------------------------------------
(* C16 *)

\* C16: a step that changes a document of the store is the write step of
\* one update of that document and leaves every field of its update set
\* at the new value and every other field, and the id, as they were,
\* whatever other update of the document is in flight: after two
\* concurrent updates every field holds a value one of them wrote.  A
\* fetch answered 200 carries the fields of the document, and a list
\* answered 200 carries in every item the name and the age of a document,
\* as the one state of the store that its find step read holds them.
C16_UpdateWritesAllFieldsAtOnce ==
    [][/\ \A i \in 1..Len(store) :
            (Len(store') = Len(store) /\ store'[i] # store[i]) =>
                \E c \in Clients :
                    /\ reqs[c].op = "update" /\ reqs[c].pc = "write"
                    /\ reqs'[c].pc # "write"
                    /\ Target(reqs[c].id) = store[i]._id
                    /\ store'[i]._id = store[i]._id
                    /\ \A f \in StudentFields :
                         store'[i][f] =
                             IF f \in Carried(reqs[c].body)
                             THEN reqs[c].body[f].v ELSE store[i][f]
       /\ \A c \in Clients :
            (reqs[c].pc = "fetch" /\ reqs'[c].status = 200) =>
                \E i \in 1..Len(store) :
                    /\ store[i]._id = Target(reqs[c].id)
                    /\ reqs'[c].out = [name |-> store[i].name,
                                       age |-> store[i].age,
                                       address |-> store[i].address]
       /\ \A c \in Clients :
            (reqs[c].pc = "list" /\ reqs'[c].status = 200) =>
                LET data == reqs'[c].out.data IN
                \A k \in 1..Len(data) :
                    /\ \E i \in 1..Len(store) :
                         data[k] = [name |-> store[i].name,
                                    age |-> store[i].age]
                    /\ Cardinality({j \in 1..Len(data) : data[j] = data[k]})
                         <= Cardinality({i \in 1..Len(store) :
                                /\ store[i].name = data[k].name
                                /\ store[i].age = data[k].age})]_vars

\* Two concurrent updates of one record and a list interleaved with them:
\* an update of name and age is between its write, which found the record
\* holding its own values, and its probe; the record now holds the name
\* and the age the other client's update has written together since; and
\* the other client's list has been answered with that name and age.
C16_Witness ==
    \E c, d \in Clients :
        /\ reqs[d].op = "update" /\ reqs[d].pc = "probe"
        /\ reqs[d].atWrite = "present"
        /\ Carried(reqs[d].body) = {"name", "age"}
        /\ reqs[d].body.name = Val("Rahul") /\ reqs[d].body.age = Val(23)
        /\ reqs[c].op = "list" /\ reqs[c].status = 200
        /\ \E i \in 1..Len(store) :
             /\ store[i]._id = Target(reqs[d].id)
             /\ store[i].name = "Jane Doe" /\ store[i].age = 22
             /\ \A j \in 1..Len(store) : j # i => store[j].name # "Jane Doe"
             /\ \E k \in 1..Len(reqs[c].out.data) :
                  reqs[c].out.data[k] = [name |-> "Jane Doe", age |-> 22]

----------------------------------------------------------------------------
(* C18 *)

\* C18: a request one of whose store primitives raised is over and was
\* answered 500: it awaits no further store primitive.
C18_StoreErrorIsServerError ==
    \A c \in Clients :
        reqs[c].failed =>
            /\ reqs[c].pc = "done"
            /\ reqs[c].status = 500
            /\ reqs[c].status \notin {200, 201, 204, 404}

\* The probe of an update raised after its write had matched the record.
C18_Witness ==
    \E c \in Clients :
        /\ reqs[c].op = "update" /\ reqs[c].failed
        /\ reqs[c].atWrite = "present" /\ reqs[c].calls = 2
        /\ reqs[c].status = 500

====
